---- MODULE Spec2Model ----
(***************************************************************************)
(* A model of mock-data-generator.py: the procedure-code pool built at     *)
(* import time, the pronounceable-word and e-mail generators, and the      *)
(* tab-delimited record reader.                                            *)
(*                                                                         *)
(* Text is modelled as sequences.  The generators build their strings from *)
(* one-character strings ("a", "7", "@"); the reader works on bytes and    *)
(* code points, which are integers.  The random source is a family of      *)
(* streams (Seeds): a stream fixes the outcome of the i-th character draw  *)
(* of a call, while every structural draw (branch, length, index into a    *)
(* short list) is chosen freely.                                           *)
(***************************************************************************)
EXTENDS Integers, Sequences, FiniteSets, TLC

(* ------------------------------ bounds --------------------------------- *)

\* The modelled random streams are numbered 0..MaxSeed.
MaxSeed == 1

\* Largest length argument tried on pronounceable_word.
MaxWordLen == 9

\* Longest file (in bytes) handed to read_voter_file.
MaxBytes == 6

(* --------------------------- random source ----------------------------- *)

Seeds == 0..MaxSeed

\* Seeds whose stream never gets stuck on one value (rejection sampling in
\* random.sample terminates on them).
MovingSeeds == {s \in Seeds : s > 0}

\* Every third draw of a stream repeats the draw before it; stream 0 draws
\* the same value every time.
Tick(i) == i - ((i % 3) \div 2)

\* The i-th draw of a stream, as an integer of 0..n-1 (random._randbelow).
RandBelow(seed, i, n) == (seed * (1 + Tick(i)) * 7919) % n

\* random.choice(seq) on the i-th draw of a stream (1-based sequences).
Choice(seq, seed, i) == seq[RandBelow(seed, i, Len(seq)) + 1]

\* random.randint(a, b) raises ValueError when the range is empty.
RandintRaises(a, b) == a > b

\* The values random.randint(a, b) can return.
Randint(a, b) == a..b

(* ------------------------------ alphabets ------------------------------ *)

ascii_lowercase ==
  << "a","b","c","d","e","f","g","h","i","j","k","l","m",
     "n","o","p","q","r","s","t","u","v","w","x","y","z" >>

digits == << "0","1","2","3","4","5","6","7","8","9" >>

Range(seq) == {seq[i] : i \in DOMAIN seq}

(* --------------------------- number formatting ------------------------- *)

RECURSIVE Str(_)
\* str(n) for n >= 0: the decimal digits, most significant first.
Str(n) == IF n < 10 THEN << digits[n + 1] >>
          ELSE Append(Str(n \div 10), digits[(n % 10) + 1])

RECURSIVE ZeroPad(_, _)
ZeroPad(s, width) == IF Len(s) >= width THEN s ELSE ZeroPad(<< "0" >> \o s, width)

\* f"{n:0{width}d}": at least width characters, padded on the left with 0.
FormatD(n, width) == ZeroPad(Str(n), width)

(* ------------------------- procedure-code pool ------------------------- *)

\* Number of codes in the pool.
PoolCount == 100

\* The population range(0, 100_000) is 0..PopulationSize-1.
PopulationSize == 100000

\* Width of a formatted code.
CodeWidth == 5

RECURSIVE DrawFresh(_, _, _, _)
\* j = randbelow(n); while j in selected: j = randbelow(n).  Returns the
\* index kept and the position of the stream after it.
DrawFresh(n, seed, i, selected) ==
  LET j == RandBelow(seed, i, n)
  IN  IF j \in selected THEN DrawFresh(n, seed, i + 1, selected)
      ELSE [j |-> j, i |-> i + 1]

\* One iteration of the selection loop of random.sample.
SampleStep(n, seed, st) ==
  LET d == DrawFresh(n, seed, st.i, Range(st.result))
  IN  [result |-> Append(st.result, d.j), i |-> d.i]

RECURSIVE SampleLoop(_, _, _, _)
\* count iterations of the selection loop, run in two halves (the test on
\* half.i only makes the first half be evaluated before the second).
SampleLoop(n, seed, st, count) ==
  IF count = 0 THEN st
  ELSE IF count = 1 THEN SampleStep(n, seed, st)
  ELSE LET half == SampleLoop(n, seed, st, count \div 2)
       IN  IF half.i >= 0
           THEN SampleLoop(n, seed, half, count - (count \div 2))
           ELSE half

\* random.sample(range(n), k) for a large population: the k indices kept,
\* in selection order (population[j] = j for a range starting at 0).
Sample(n, k, seed) == SampleLoop(n, seed, [result |-> << >>, i |-> 0], k).result

FormatCode_short(code) == FormatD(code, CodeWidth - 1)

FormatCode(code) == FormatD(code, CodeWidth)

\* _PROCEDURE_CODES as built at import time from one random stream.
BuildProcedureCodes(seed) ==
  LET sampled == Sample(PopulationSize, PoolCount, seed)
  IN  [i \in 1..PoolCount |-> FormatCode(sampled[i])]

(* ------------------------- pronounceable words ------------------------- *)

vowels == << "a","e","i","o","u" >>

\* "".join(set(ascii_lowercase) - set(vowels)): the 21 other letters.  The
\* order of the joined set is arbitrary; alphabetical order is used here.
consonants == SelectSeq(ascii_lowercase, LAMBDA c : c \notin Range(vowels))

ClassAt_fixed(i, start_with_consonant) ==
  IF i % 2 = 0 THEN consonants ELSE vowels

\* The character class of position i (0-based) of a word.
ClassAt(i, start_with_consonant) ==
  IF start_with_consonant
  THEN (IF i % 2 = 0 THEN consonants ELSE vowels)
  ELSE (IF i % 2 = 0 THEN vowels ELSE consonants)

\* The loop of pronounceable_word: range(length) positions, one draw each,
\* starting at draw number base of the stream.
WordChars(length, start_with_consonant, seed, base) ==
  [k \in 1..length |-> Choice(ClassAt(k - 1, start_with_consonant),
                              seed, base + k - 1)]

WordOutcomes_swapped(min_len, max_len) ==
  { [status |-> "ok", length |-> n] :
      n \in Randint(IF min_len < max_len THEN min_len ELSE max_len,
                    IF min_len < max_len THEN max_len ELSE min_len) }

\* length = random.randint(min_len, max_len): the exception raised, or the
\* lengths that can be drawn.
WordOutcomes(min_len, max_len) ==
  IF RandintRaises(min_len, max_len)
  THEN { [status |-> "ValueError", length |-> 0] }
  ELSE { [status |-> "ok", length |-> n] : n \in Randint(min_len, max_len) }

\* The words pronounceable_word(min_len, max_len) can return on a stream.
PronounceableWords(min_len, max_len, seed, base) ==
  { WordChars(o.length, start, seed, base) :
      o \in { x \in WordOutcomes(min_len, max_len) : x.status = "ok" },
      start \in BOOLEAN }

(* ------------------------------- domains ------------------------------- *)

Chars_gmail   == << "g","m","a","i","l",".","c","o","m" >>
Chars_yahoo   == << "y","a","h","o","o",".","c","o","m" >>
Chars_outlook == << "o","u","t","l","o","o","k",".","c","o","m" >>
Chars_hotmail == << "h","o","t","m","a","i","l",".","c","o","m" >>

COMMON_DOMAINS == << Chars_gmail, Chars_yahoo, Chars_outlook, Chars_hotmail >>

DOMAIN_SOURCES == << "common", "company", "random" >>

TLDs_long ==
  << << "c","o","m" >>, << "n","e","t" >>, << "o","r","g" >>, << "i","o" >>,
     << "c","o" >>, << "b","i","z" >>, << "i","n","f","o" >>,
     << "m","u","s","e","u","m" >> >>

TLDs ==
  << << "c","o","m" >>, << "n","e","t" >>, << "o","r","g" >>, << "i","o" >>,
     << "c","o" >>, << "b","i","z" >>, << "i","n","f","o" >> >>

\* Shortest and longest label of a generated domain.
LabelMin == 5
LabelMax == 10

\* f"{label}.{tld}"
JoinDomain(label, tld) == label \o << "." >> \o tld

CompanyDomains_short(seed, base) ==
  { JoinDomain(label, TLDs[t]) :
      label \in PronounceableWords(LabelMin - 1, LabelMax, seed, base),
      t \in DOMAIN TLDs }

\* The domains _generate_company_domain can return on a stream.
CompanyDomains(seed, base) ==
  { JoinDomain(label, TLDs[t]) :
      label \in PronounceableWords(LabelMin, LabelMax, seed, base),
      t \in DOMAIN TLDs }

\* The domains _generate_random_domain can return on a stream.
RandomDomains(seed, base) ==
  { JoinDomain([k \in 1..length |-> Choice(ascii_lowercase, seed, base + k - 1)],
               TLDs[t]) :
      length \in Randint(LabelMin, LabelMax), t \in DOMAIN TLDs }

\* The domain selection of fakeEmailAddress for a drawn source.
DomainsOf(src, seed, base) ==
  IF src = "common" THEN Range(COMMON_DOMAINS)
  ELSE IF src = "company" THEN CompanyDomains(seed, base)
  ELSE RandomDomains(seed, base)

(* ------------------------------- e-mail -------------------------------- *)

\* total_length = random.randint(TotalMin, TotalMax)
TotalMin == 100
TotalMax == 254

\* alphabet = string.ascii_lowercase + string.digits
LongAlphabet == ascii_lowercase \o digits

\* chars = string.ascii_lowercase + string.digits + "._%+-"
LocalChars == ascii_lowercase \o digits \o << ".","_","%","+","-" >>

LocalLength_noat(total_length, domain) == total_length - Len(domain)

\* local_length = total_length - len(domain) - 1
LocalLength(total_length, domain) == total_length - Len(domain) - 1

\* "".join(random.choice(alphabet) for _ in range(local_length))
LongLocal(local_length, seed, base) ==
  [k \in 1..local_length |-> Choice(LongAlphabet, seed, base + k - 1)]

\* The six patterns built from first, last and the two drawn numbers.
Patterns(first, last, n1, n2) ==
  << first \o << "." >> \o last,
     first \o last,
     << first[1] >> \o last,
     first \o << "_" >> \o last,
     first \o Str(n1),
     last \o Str(n2) >>

\* The realistic local parts: two words, two numbers and a pattern, drawn in
\* that order from the stream.
RealisticLocals(seed) ==
  UNION { UNION { LET at == Len(first) + Len(last)
                      patterns == Patterns(first, last,
                                           1 + RandBelow(seed, at, 99),
                                           1 + RandBelow(seed, at + 1, 999))
                  IN  { [local |-> patterns[p], used |-> at + 3] :
                          p \in DOMAIN patterns } :
                  last \in PronounceableWords(3, 8, seed, Len(first)) } :
          first \in PronounceableWords(3, 7, seed, 0) }

\* A random local part of 1..20 characters.
RandomLocals(seed) ==
  { [local |-> [k \in 1..length |-> Choice(LocalChars, seed, k - 1)],
     used |-> length] : length \in Randint(1, 20) }

(* ---------------------------- record reader ---------------------------- *)

\* delimiter='\t', quotechar='"', and the two line terminators.
TAB == 9
QUOTE == 34
LF == 10
CR == 13

\* encoding='ascii': bytes below AsciiLimit decode to themselves.
AsciiLimit == 128

\* '�' and '?'
REPLACEMENT == 65533
QUESTION == 63

\* The bytes a modelled file is made of: tab, line feed, double quote, the
\* letter a, and 0xE9, which is not ASCII.
FileBytes == {9, 10, 34, 97, 233}

Files == UNION { [1..n -> FileBytes] : n \in 0..MaxBytes }

\* errors='replace': a byte that is not ASCII becomes the replacement marker.
DecodeByte(b) == IF b < AsciiLimit THEN b ELSE REPLACEMENT

\* The text the file object yields for the bytes of the file.
Decode(bytes) == [k \in DOMAIN bytes |-> DecodeByte(bytes[k])]

clean_field_keep(s) == s

\* s.replace('�', '?')
clean_field(s) == [k \in DOMAIN s |-> IF s[k] = REPLACEMENT THEN QUESTION ELSE s[k]]

CleanRow(row) == [k \in DOMAIN row |-> clean_field(row[k])]

RECURSIVE SplitLines(_, _)
\* Iterating the file opened with newline='': lines end after \n, \r or
\* \r\n, and keep their terminator.  cur is the line being collected.
SplitLines(text, cur) ==
  IF text = << >> THEN (IF cur = << >> THEN << >> ELSE << cur >>)
  ELSE LET c == Head(text)
           rest == Tail(text)
       IN  IF c = LF THEN << Append(cur, c) >> \o SplitLines(rest, << >>)
           ELSE IF c = CR /\ rest # << >> /\ Head(rest) = LF
                THEN << cur \o << CR, LF >> >> \o SplitLines(Tail(rest), << >>)
           ELSE IF c = CR THEN << Append(cur, c) >> \o SplitLines(rest, << >>)
           ELSE SplitLines(rest, Append(cur, c))

\* The end-of-line marker the csv parser is fed after each line.
EOL == 0 - 1

IsNewline(c) == c = LF \/ c = CR

\* parse_save_field: the field collected so far joins the row.
SaveField(p, next) ==
  [p EXCEPT !.fields = Append(p.fields, p.field), !.field = << >>,
            !.state = next]

\* parse_add_char
AddChar(p, c, next) == [p EXCEPT !.field = Append(p.field, c), !.state = next]

AfterLine(c) == IF c = EOL THEN "START_RECORD" ELSE "EAT_CRNL"

StartField(p, c) ==
  IF IsNewline(c) \/ c = EOL THEN SaveField(p, AfterLine(c))
  ELSE IF c = QUOTE THEN [p EXCEPT !.state = "IN_QUOTED_FIELD"]
  ELSE IF c = TAB THEN SaveField(p, "START_FIELD")
  ELSE AddChar(p, c, "IN_FIELD")

\* parse_process_char of the csv reader (doublequote, not strict, no
\* escape character, no skipinitialspace).
ProcessChar(p, c) ==
  CASE p.state = "START_RECORD" ->
         IF c = EOL THEN p
         ELSE IF IsNewline(c) THEN [p EXCEPT !.state = "EAT_CRNL"]
         ELSE StartField(p, c)
    [] p.state = "START_FIELD" -> StartField(p, c)
    [] p.state = "IN_FIELD" ->
         IF IsNewline(c) \/ c = EOL THEN SaveField(p, AfterLine(c))
         ELSE IF c = TAB THEN SaveField(p, "START_FIELD")
         ELSE AddChar(p, c, "IN_FIELD")
    [] p.state = "IN_QUOTED_FIELD" ->
         IF c = EOL THEN p
         ELSE IF c = QUOTE THEN [p EXCEPT !.state = "QUOTE_IN_QUOTED_FIELD"]
         ELSE AddChar(p, c, "IN_QUOTED_FIELD")
    [] p.state = "QUOTE_IN_QUOTED_FIELD" ->
         IF c = QUOTE THEN AddChar(p, c, "IN_QUOTED_FIELD")
         ELSE IF c = TAB THEN SaveField(p, "START_FIELD")
         ELSE IF IsNewline(c) \/ c = EOL THEN SaveField(p, AfterLine(c))
         ELSE AddChar(p, c, "IN_FIELD")
    [] p.state = "EAT_CRNL" ->
         IF IsNewline(c) THEN p
         ELSE IF c = EOL THEN [p EXCEPT !.state = "START_RECORD"]
         ELSE [p EXCEPT !.state = "ERROR"]
    [] OTHER -> p

RECURSIVE ProcessLine(_, _)
ProcessLine(p, line) ==
  IF line = << >> THEN ProcessChar(p, EOL)
  ELSE ProcessLine(ProcessChar(p, Head(line)), Tail(line))

\* parse_reset
ParseReset == [state |-> "START_RECORD", field |-> << >>, fields |-> << >>]

RECURSIVE ReadRows(_, _)
\* Iterating the csv reader: a row is complete when a line leaves the
\* parser at START_RECORD; when the lines run out inside a quoted field (or
\* with a field under way) what was collected is the last row.
ReadRows(p, lines) ==
  IF lines = << >>
  THEN IF p.field # << >> \/ p.state = "IN_QUOTED_FIELD"
       THEN << Append(p.fields, p.field) >>
       ELSE << >>
  ELSE LET q == ProcessLine(p, Head(lines))
       IN  IF q.state = "START_RECORD"
           THEN << q.fields >> \o ReadRows(ParseReset, Tail(lines))
           ELSE ReadRows(q, Tail(lines))

\* The rows csv.reader(f, delimiter='\t', quotechar='"') yields.
CsvRows(text) == ReadRows(ParseReset, SplitLines(text, << >>))

Min(x, y) == IF x < y THEN x ELSE y

RECURSIVE RecFrom_first(_, _, _, _)
RecFrom_first(headers, row, k, rec) ==
  IF k > Len(headers) THEN rec
  ELSE IF k <= Len(row)
       THEN RecFrom_first(headers, row, k + 1,
              [h \in DOMAIN rec \cup {headers[k]} |->
                 IF h \in DOMAIN rec THEN rec[h] ELSE row[k]])
       ELSE RecFrom_first(headers, row, k + 1, rec)

RECURSIVE RecFrom_fill(_, _, _, _)
RecFrom_fill(headers, row, k, rec) ==
  IF k > Len(headers) THEN rec
  ELSE RecFrom_fill(headers, row, k + 1,
         [h \in DOMAIN rec \cup {headers[k]} |->
            IF h = headers[k] THEN (IF k <= Len(row) THEN row[k] ELSE << >>)
            ELSE rec[h]])

RECURSIVE RecFrom(_, _, _, _)
\* {h: clean_row[i] for i, h in enumerate(headers) if i < len(clean_row)}:
\* the entries are stored in header order, a later one replacing an earlier
\* one under the same key.  k is the 1-based position, rec the dict so far.
RecFrom(headers, row, k, rec) ==
  IF k > Len(headers) THEN rec
  ELSE IF k <= Len(row)
       THEN RecFrom(headers, row, k + 1,
              [h \in DOMAIN rec \cup {headers[k]} |->
                 IF h = headers[k] THEN row[k] ELSE rec[h]])
       ELSE RecFrom(headers, row, k + 1, rec)

\* The empty dict.
EmptyRec == [h \in {} |-> << >>]

Rec(headers, row) == RecFrom(headers, row, 1, EmptyRec)

ReaderStatus_ok(rows) == "ok"

\* next(reader) raises StopIteration when the reader yields no row at all.
ReaderStatus(rows) == IF rows = << >> THEN "StopIteration" ELSE "ok"

\* headers = [clean_field(h) for h in raw_headers]
CleanHeaders(raw_headers) == CleanRow(raw_headers)

\* read_voter_file on a file holding bytes: the exception raised, or the
\* pair (headers, records) returned.
ReadVoterFile(bytes) ==
  LET rows == CsvRows(Decode(bytes))
      headers == IF rows = << >> THEN << >> ELSE CleanHeaders(rows[1])
  IN  IF ReaderStatus(rows) # "ok"
      THEN [status |-> ReaderStatus(rows), headers |-> << >>, records |-> << >>]
      ELSE [status |-> "ok", headers |-> headers,
            records |-> [k \in 1..(Len(rows) - 1) |->
                           Rec(headers, CleanRow(rows[k + 1]))]]

(* -------------------------------- state -------------------------------- *)

\* PROCEDURE_CODES: the module-level pool.
\* code:   the last return of fakeProcedureCode.
\* word:   the last call of pronounceable_word and its outcome.
\* email:  the last call of fakeEmailAddress, with its locals.
\* reader: the last call of read_voter_file: the file and its outcome.
VARIABLES PROCEDURE_CODES, code, word, email, reader

vars == << PROCEDURE_CODES, code, word, email, reader >>

NoCode == [called |-> FALSE, value |-> << >>]

NoWord == [called |-> FALSE, min_len |-> 0, max_len |-> 0, status |-> "none",
           start_with_consonant |-> FALSE, value |-> << >>]

NoEmail == [called |-> FALSE, branch |-> "none", src |-> "none",
            domain |-> << >>, total_length |-> 0, local_length |-> 0,
            local |-> << >>, value |-> << >>]

NoRead == [called |-> FALSE, input |-> << >>, status |-> "none",
           headers |-> << >>, records |-> << >>]

\* The module has been imported with the stream seed; nothing called yet.
Imported(seed) ==
  /\ PROCEDURE_CODES = BuildProcedureCodes(seed)
  /\ code = NoCode
  /\ word = NoWord
  /\ email = NoEmail
  /\ reader = NoRead

Init == \E seed \in MovingSeeds : Imported(seed)

\* One import, for the specifications that never read the pool.
InitOne == Imported(1)

(* ------------------------------- actions ------------------------------- *)

\* No returned value is waiting to be printed.
Idle == code = NoCode /\ word = NoWord /\ email = NoEmail /\ reader = NoRead

\* main prints the value a generator returned and drops it.
print_value ==
  /\ ~ Idle
  /\ code' = NoCode
  /\ word' = NoWord
  /\ email' = NoEmail
  /\ reader' = NoRead
  /\ UNCHANGED PROCEDURE_CODES

fakeProcedureCode ==
  /\ Idle
  /\ \E i \in 1..Len(PROCEDURE_CODES) :
       code' = [called |-> TRUE, value |-> PROCEDURE_CODES[i]]
  /\ UNCHANGED << PROCEDURE_CODES, word, email, reader >>

WordArgs == (0 - 1)..MaxWordLen

pronounceable_word ==
  /\ Idle
  /\ \E min_len, max_len \in WordArgs, seed \in Seeds :
       \E o \in WordOutcomes(min_len, max_len) :
         IF o.status # "ok"
         THEN word' = [called |-> TRUE, min_len |-> min_len,
                       max_len |-> max_len, status |-> o.status,
                       start_with_consonant |-> FALSE, value |-> << >>]
         ELSE \E start \in BOOLEAN :
                word' = [called |-> TRUE, min_len |-> min_len,
                         max_len |-> max_len, status |-> "ok",
                         start_with_consonant |-> start,
                         value |-> WordChars(o.length, start, seed, 0)]
  /\ UNCHANGED << PROCEDURE_CODES, code, email, reader >>

\* f"{local}@{domain}"
Address(local, domain) == local \o << "@" >> \o domain

\* fakeEmailAddress when random.randint(1, 50) == 1.
LongEmail(seed) ==
  \E s \in DOMAIN DOMAIN_SOURCES :
    \E domain \in DomainsOf(DOMAIN_SOURCES[s], seed, 0),
       total_length \in Randint(TotalMin, TotalMax) :
      LET local_length == LocalLength(total_length, domain)
          local == LongLocal(local_length, seed, Len(domain))
      IN  email' = [called |-> TRUE, branch |-> "long",
                    src |-> DOMAIN_SOURCES[s], domain |-> domain,
                    total_length |-> total_length,
                    local_length |-> local_length, local |-> local,
                    value |-> Address(local, domain)]

\* fakeEmailAddress otherwise.
NormalEmail(seed) ==
  \E realistic \in BOOLEAN :
    \E l \in (IF realistic THEN RealisticLocals(seed) ELSE RandomLocals(seed)),
       s \in DOMAIN DOMAIN_SOURCES :
      \E domain \in DomainsOf(DOMAIN_SOURCES[s], seed, l.used) :
        email' = [called |-> TRUE, branch |-> "normal",
                  src |-> DOMAIN_SOURCES[s], domain |-> domain,
                  total_length |-> 0, local_length |-> 0, local |-> l.local,
                  value |-> Address(l.local, domain)]

fakeEmailAddress ==
  /\ Idle
  /\ \E seed \in Seeds, long \in {d = 1 : d \in Randint(1, 50)} :
       IF long THEN LongEmail(seed) ELSE NormalEmail(seed)
  /\ UNCHANGED << PROCEDURE_CODES, code, word, reader >>

read_voter_file ==
  /\ Idle
  /\ \E bytes \in Files :
       LET out == ReadVoterFile(bytes)
       IN  reader' = [called |-> TRUE, input |-> bytes, status |-> out.status,
                      headers |-> out.headers, records |-> out.records]
  /\ UNCHANGED << PROCEDURE_CODES, code, word, email >>

Next ==
  \/ fakeProcedureCode
  \/ pronounceable_word
  \/ fakeEmailAddress
  \/ read_voter_file
  \/ print_value

Spec == Init /\ [][Next]_vars

\* The pool and its readers.
SpecPool == Init /\ [][fakeProcedureCode \/ print_value]_vars

\* The word generator on its own.
SpecWord == InitOne /\ [][pronounceable_word \/ print_value]_vars

\* The e-mail generator on its own.
SpecEmail == InitOne /\ [][fakeEmailAddress \/ print_value]_vars

\* The record reader on its own.
SpecReader == InitOne /\ [][read_voter_file \/ print_value]_vars

(* ------------------------------ properties ----------------------------- *)

Lowercase == Range(ascii_lowercase)

Digits == Range(digits)

IsVowel(c) == c \in {"a", "e", "i", "o", "u"}

IsConsonant(c) == c \in Lowercase /\ ~ IsVowel(c)

\* C1: a long-branch address is local + '@' + domain with
\* len(local) + 1 + len(domain) = total_length for the drawn total_length of
\* 100..254, so the address is 100 to 254 characters long, and local holds
\* only lowercase letters and digits.
C1_LongAddressLength ==
  (email.called /\ email.branch = "long") =>
    /\ email.total_length \in 100..254
    /\ email.value = email.local \o << "@" >> \o email.domain
    /\ Len(email.local) + 1 + Len(email.domain) = email.total_length
    /\ Len(email.value) \in 100..254
    /\ \A k \in DOMAIN email.local : email.local[k] \in Lowercase \cup Digits

\* The longest address on the longest domain has been returned.
C1_Witness ==
  /\ email.called /\ email.branch = "long"
  /\ email.total_length = 254
  /\ Len(email.domain) = 15
  /\ \E k \in DOMAIN email.local : email.local[k] \in Digits

\* C2: for 1 <= min_len <= max_len, pronounceable_word returns a word of
\* min_len..max_len lowercase letters in which position i (from 0) is a
\* consonant exactly when (i is even) equals (the word starts on a
\* consonant), so that no two neighbours are of the same class.
C2_WordShape ==
  (word.called /\ 1 <= word.min_len /\ word.min_len <= word.max_len) =>
    /\ word.status = "ok"
    /\ Len(word.value) \in word.min_len..word.max_len
    /\ \A k \in DOMAIN word.value : word.value[k] \in Lowercase
    /\ \A k \in DOMAIN word.value :
         IsConsonant(word.value[k]) <=>
           (((k - 1) % 2 = 0) <=> word.start_with_consonant)
    /\ \A k \in 1..(Len(word.value) - 1) :
         IsVowel(word.value[k]) # IsVowel(word.value[k + 1])

\* A word of several letters that starts on a vowel has been returned.
C2_Witness ==
  /\ word.called /\ word.status = "ok"
  /\ 1 <= word.min_len /\ word.min_len < word.max_len
  /\ ~ word.start_with_consonant
  /\ Len(word.value) >= 4

\* The records of a read are the rows after the first, and the headers the
\* cleaned first row.
RowsOf(bytes) == CsvRows(Decode(bytes))

\* C3 as stated: headers in column order, one record per data row, and each
\* record maps exactly the headers at positions below min(H, C), each to the
\* cell at the same position.
C3_SamePosition ==
  (reader.called /\ reader.status = "ok") =>
    LET rows == RowsOf(reader.input)
        H == Len(reader.headers)
    IN  /\ reader.headers = CleanRow(rows[1])
        /\ Len(reader.records) = Len(rows) - 1
        /\ \A k \in DOMAIN reader.records :
             LET row == CleanRow(rows[k + 1])
                 m == Min(H, Len(row))
             IN  /\ DOMAIN reader.records[k] = {reader.headers[j] : j \in 1..m}
                 /\ \A j \in 1..m :
                      reader.records[k][reader.headers[j]] = row[j]

\* C3, amended: as above, but a header is mapped to the cell at its own
\* position only when no later position below min(H, C) repeats its name.
C3_Zip ==
  (reader.called /\ reader.status = "ok") =>
    LET rows == RowsOf(reader.input)
        H == Len(reader.headers)
    IN  /\ reader.headers = CleanRow(rows[1])
        /\ Len(reader.records) = Len(rows) - 1
        /\ \A k \in DOMAIN reader.records :
             LET row == CleanRow(rows[k + 1])
                 m == Min(H, Len(row))
             IN  /\ DOMAIN reader.records[k] = {reader.headers[j] : j \in 1..m}
                 /\ \A j \in 1..m :
                      (\A j2 \in (j + 1)..m : reader.headers[j2] # reader.headers[j])
                        => reader.records[k][reader.headers[j]] = row[j]

\* Two distinct headers over a row of no cell and a row of three cells.
C3_Witness ==
  /\ reader.called /\ reader.status = "ok"
  /\ Len(reader.headers) = 2 /\ reader.headers[1] # reader.headers[2]
  /\ Len(reader.records) = 2
  /\ Len(RowsOf(reader.input)[2]) = 0
  /\ Len(RowsOf(reader.input)[3]) = 3
  /\ Cardinality(DOMAIN reader.records[1]) = 0
  /\ Cardinality(DOMAIN reader.records[2]) = 2

\* Bytes that are not ASCII written as '?' in the file itself.
Substitute(bytes) ==
  [k \in DOMAIN bytes |-> IF bytes[k] >= 128 THEN 63 ELSE bytes[k]]

HasMarker(s) == \E k \in DOMAIN s : s[k] = 65533

\* C4: no header, key or value returned holds U+FFFD, and the result is the
\* one read from the file in which every undecodable byte is a '?': each
\* such byte shows as '?' in its header or cell, headers included.
C4_NoMarker ==
  (reader.called /\ reader.status = "ok") =>
    LET plain == CsvRows(Substitute(reader.input))
    IN  /\ \A j \in DOMAIN reader.headers : ~ HasMarker(reader.headers[j])
        /\ \A k \in DOMAIN reader.records :
             \A h \in DOMAIN reader.records[k] :
               ~ HasMarker(h) /\ ~ HasMarker(reader.records[k][h])
        /\ reader.headers = plain[1]
        /\ Len(reader.records) = Len(plain) - 1
        /\ \A k \in DOMAIN reader.records :
             reader.records[k] = Rec(plain[1], plain[k + 1])

\* An undecodable byte in a header and another one in a cell under it.
C4_Witness ==
  /\ reader.called /\ reader.status = "ok"
  /\ Len(reader.records) >= 1
  /\ \E h \in DOMAIN reader.records[1] :
       /\ \E k \in DOMAIN h : h[k] = 63
       /\ \E k \in DOMAIN reader.records[1][h] : reader.records[1][h][k] = 63
  /\ Cardinality({k \in DOMAIN reader.input : reader.input[k] = 233}) >= 2

PoolShape ==
  /\ Len(PROCEDURE_CODES) = 100
  /\ \A i, j \in DOMAIN PROCEDURE_CODES :
       i # j => PROCEDURE_CODES[i] # PROCEDURE_CODES[j]
  /\ \A i \in DOMAIN PROCEDURE_CODES :
       /\ Len(PROCEDURE_CODES[i]) = 5
       /\ \A k \in 1..5 : PROCEDURE_CODES[i][k] \in Digits
  /\ code.called => code.value \in Range(PROCEDURE_CODES)

\* C5: the pool holds 100 pairwise distinct strings of exactly 5 decimal
\* digits, every value fakeProcedureCode returns is one of them, and no step
\* changes the pool.
C5_Pool == [] PoolShape /\ [][PROCEDURE_CODES' = PROCEDURE_CODES]_vars

\* A code that needed padding has been returned from the end of the pool.
C5_Witness ==
  /\ code.called
  /\ code.value = PROCEDURE_CODES[100]
  /\ \E i \in DOMAIN PROCEDURE_CODES : PROCEDURE_CODES[i][1] = "0"
  /\ \E i \in DOMAIN PROCEDURE_CODES : PROCEDURE_CODES[i][1] # "0"

\* The part of an address after its first '@'.
AfterAt(v) ==
  LET at == CHOOSE k \in DOMAIN v :
              v[k] = "@" /\ \A j \in 1..(k - 1) : v[j] # "@"
  IN  SubSeq(v, at + 1, Len(v))

Providers ==
  { << "g","m","a","i","l",".","c","o","m" >>,
    << "y","a","h","o","o",".","c","o","m" >>,
    << "o","u","t","l","o","o","k",".","c","o","m" >>,
    << "h","o","t","m","a","i","l",".","c","o","m" >> }

Suffixes ==
  { << "c","o","m" >>, << "n","e","t" >>, << "o","r","g" >>, << "i","o" >>,
    << "c","o" >>, << "b","i","z" >>, << "i","n","f","o" >> }

Alternates(label) ==
  \A k \in 1..(Len(label) - 1) : IsVowel(label[k]) # IsVowel(label[k + 1])

\* d is label.suffix: 5 to 10 lowercase letters, a dot, a fixed suffix.
IsRandomShape(d) ==
  \E n \in 5..10 :
    /\ Len(d) > n + 1
    /\ \A k \in 1..n : d[k] \in Lowercase
    /\ d[n + 1] = "."
    /\ SubSeq(d, n + 2, Len(d)) \in Suffixes

IsCompanyShape(d) ==
  \E n \in 5..10 :
    /\ Len(d) > n + 1
    /\ \A k \in 1..n : d[k] \in Lowercase
    /\ Alternates(SubSeq(d, 1, n))
    /\ d[n + 1] = "."
    /\ SubSeq(d, n + 2, Len(d)) \in Suffixes

\* C6: the part after '@' of a normal-branch address is a fixed provider, or
\* a pronounceable label of 5..10 letters and a fixed suffix, or a label of
\* 5..10 lowercase letters and a fixed suffix; the shape is the one of the
\* domain source drawn.
C6_DomainGrammar ==
  (email.called /\ email.branch = "normal") =>
    LET d == AfterAt(email.value)
    IN  /\ d \in Providers \/ IsCompanyShape(d) \/ IsRandomShape(d)
        /\ email.src = "common" => d \in Providers
        /\ email.src = "company" => IsCompanyShape(d)
        /\ email.src = "random" => IsRandomShape(d)

\* A company domain after a realistic local part with a dot in it.
C6_Witness ==
  /\ email.called /\ email.branch = "normal"
  /\ email.src = "company"
  /\ \E k \in DOMAIN email.local : email.local[k] = "."
  /\ Len(AfterAt(email.value)) = 8

\* C7: reading an empty file raises, and returns neither headers nor
\* records.
C7_EmptyFile ==
  (reader.called /\ reader.input = << >>) =>
    /\ reader.status = "StopIteration"
    /\ reader.headers = << >>
    /\ reader.records = << >>

\* The empty file has been read.
C7_Witness == reader.called /\ reader.input = << >> /\ reader.status # "ok"

\* C8: for min_len > max_len pronounceable_word raises and returns no word.
C8_InvertedRange ==
  (word.called /\ word.min_len > word.max_len) =>
    /\ word.status = "ValueError"
    /\ word.value = << >>

\* An inverted range of positive lengths has been tried.
C8_Witness ==
  /\ word.called /\ word.status = "ValueError"
  /\ word.min_len > word.max_len /\ word.max_len >= 1

\* C9: in the long branch the domain is 8 to 15 characters long, so the
\* local length total_length - len(domain) - 1 is within 84..245: never
\* zero or negative, and the local part is never empty.
C9_LocalLengthPositive ==
  (email.called /\ email.branch = "long") =>
    /\ Len(email.domain) \in 8..15
    /\ email.local_length = email.total_length - Len(email.domain) - 1
    /\ email.local_length \in 84..245
    /\ Len(email.local) = email.local_length
    /\ email.local # << >>

\* The shortest address on the longest domain has been returned.
C9_Witness ==
  /\ email.called /\ email.branch = "long"
  /\ email.total_length = 100
  /\ Len(email.domain) = 15
  /\ email.local_length = 84

\* The positions of name h among the first m headers.
PositionsOf(h, m) == {j \in 1..m : reader.headers[j] = h}

Last(S) == CHOOSE j \in S : \A j2 \in S : j2 <= j

Repeated == {reader.headers[j] : j \in {x \in DOMAIN reader.headers :
               \E y \in DOMAIN reader.headers : y # x /\ reader.headers[y] = reader.headers[x]}}

\* C10 as stated: when a header name is repeated, every record has one
\* entry for it, holding the cell at the last position of the name below
\* the cell count, and has fewer entries than min(H, C); the header list
\* keeps every occurrence.
C10_EveryRecord ==
  (reader.called /\ reader.status = "ok" /\ Repeated # {}) =>
    LET rows == RowsOf(reader.input)
    IN  /\ reader.headers = CleanRow(rows[1])
        /\ \A k \in DOMAIN reader.records :
             LET row == CleanRow(rows[k + 1])
                 m == Min(Len(reader.headers), Len(row))
             IN  /\ \A h \in Repeated :
                      /\ h \in DOMAIN reader.records[k]
                      /\ PositionsOf(h, m) # {}
                      /\ reader.records[k][h] = row[Last(PositionsOf(h, m))]
                 /\ Cardinality(DOMAIN reader.records[k]) < m

\* C10, amended: the same for the records of rows whose cells reach at least
\* two positions of the name; any record has as many entries as there are
\* distinct names among its first min(H, C) headers.
C10_LastWins ==
  (reader.called /\ reader.status = "ok") =>
    LET rows == RowsOf(reader.input)
    IN  /\ reader.headers = CleanRow(rows[1])
        /\ \A k \in DOMAIN reader.records :
             LET row == CleanRow(rows[k + 1])
                 m == Min(Len(reader.headers), Len(row))
             IN  /\ \A h \in Repeated :
                      Cardinality(PositionsOf(h, m)) >= 2 =>
                        /\ h \in DOMAIN reader.records[k]
                        /\ reader.records[k][h] = row[Last(PositionsOf(h, m))]
                        /\ Cardinality(DOMAIN reader.records[k]) < m
                 /\ Cardinality(DOMAIN reader.records[k]) =
                      Cardinality({reader.headers[j] : j \in 1..m})

\* A name at positions 1 and 3 over a row whose cells there differ.
C10_Witness ==
  /\ reader.called /\ reader.status = "ok"
  /\ Len(reader.headers) = 3
  /\ reader.headers[1] = reader.headers[3]
  /\ Len(reader.records) = 1
  /\ LET row == CleanRow(RowsOf(reader.input)[2])
     IN  /\ Len(row) = 3
         /\ row[1] # row[3]
         /\ reader.records[1][reader.headers[1]] = row[3]
====

